---- MODULE Spec2Model ----
(***************************************************************************)
(* PreciseTime: a 64-bit elapsed-time service built on a narrow hardware   *)
(* counter.  The three build-time backends of PreciseTime.h are modelled   *)
(* side by side; the variable `backend` names the one that was compiled:   *)
(*   "ESP32"    timer interrupt incrementing a 64-bit counter (two words), *)
(*   "ESP8266"  micros() + an overflow interrupt counter,                  *)
(*   "generic"  millis() polled by update()/getMicroseconds().             *)
(*                                                                         *)
(* Scaling.  A uint32_t is modelled modulo UINT32_MAX + 1 with a scaled    *)
(* UINT32_MAX, the 64-bit totals are unbounded naturals (the time bounds   *)
(* keep them far below 2^64).  One millisecond, 1000 ticks of a            *)
(* microsecond counter, is scaled to UsPerMs ticks in the two microsecond  *)
(* backends; the 1000 of the ms -> us conversion is kept as written.       *)
(*                                                                         *)
(* The accessors built on getMicroseconds() (getMilliseconds, getSeconds,  *)
(* getFormattedTime, getFormattedString, getOverflowYears) are pure        *)
(* functions of the value read; SpecUnits applies them, unscaled, to       *)
(* inputs drawn from sets.  A text is the sequence of its characters.      *)
(***************************************************************************)
EXTENDS Integers, Sequences, FiniteSets, TLC

\* ---------------------------------------------------------------- bounds
\* scaled value of UINT32_MAX (the narrow period is NarrowMax + 1)
NarrowMax == 31
\* single ticks of the narrow counter since the last begin()/reset()
MaxTicks == 3
\* long delays (UINT32_MAX ticks with no call) since the last begin()/reset()
MaxSleeps == 1
\* begin() calls
MaxBegins == 2
\* ticks of a microsecond counter in one millisecond (scaled from 1000)
UsPerMs == 3

UINT32_MAX == NarrowMax
Period == UINT32_MAX + 1
\* timer alarms since the last reset(): enough for a carry into the high word
MaxAlarms == UINT32_MAX + 3

Backends == {"ESP32", "ESP8266", "generic"}
\* ret and prev when no getMicroseconds() value is recorded
NoRead == 0 - 1

VARIABLES
    backend,          \* which #if branch was compiled
    initialized,      \* PreciseTime::initialized
    pc,               \* position of the mainline inside a public call
    req,              \* the public call in progress ("none" when idle)
    narrow,           \* the hardware counter behind millis() / micros()
    irq,              \* ESP8266: an overflow interrupt is pending
    last_millis, total_millis,                       \* generic
    overflow_counter, last_micros, total_micros,     \* ESP8266
    current_micros, high_part,                       \* ESP8266: locals of updateTime
    time_lo, time_hi,                                \* ESP32: the words of time_fct_micros
    timerMux,                                        \* ESP32: "free", "main" or "isr"
    isrpc, carry,                                    \* ESP32: position and local of timerISR
    rd_lo, rd_hi,                                    \* ESP32: the local `time` of getMicroseconds
    timer_arms,                                      \* ESP32: timerAlarmEnable calls
    ret,              \* value returned by the last getMicroseconds() (NoRead: none)
    prev,             \* the value getMicroseconds() returned before ret
    readAt,           \* history: Elapsed when ret was returned
    era,              \* history: what set the baseline ("none", "begin", "reset")
    nticks, nsleeps,  \* history: ticks and long delays since the baseline
    sampleAt,         \* history: Elapsed at the last sample of the narrow counter
    gapsOK,           \* history: every gap between samples was below one period
    wraps,            \* history: wraps of the narrow counter since the baseline
    begins,           \* history: begin() calls
    readStart,        \* history: the interrupt-driven counter when the call in
                      \* progress started (ESP32: ticks, ESP8266: overflow_counter)
    read_us,          \* the value the getMicroseconds() inside an accessor returned
    total_seconds,    \* the local total_seconds of getFormattedTime
    accessor,         \* the accessor whose result is recorded ("none": none yet)
    result            \* what that accessor returned

ctlVars == <<backend, initialized, pc, req>>
hwVars == <<narrow, irq>>
pollVars == <<last_millis, total_millis>>
ovfVars == <<overflow_counter, last_micros, total_micros, current_micros, high_part>>
tickVars == <<time_lo, time_hi, timerMux, isrpc, carry, rd_lo, rd_hi, timer_arms>>
readVars == <<ret, prev, readAt>>
histVars == <<era, nticks, nsleeps, sampleAt, gapsOK, wraps, begins, readStart>>
accVars == <<read_us, total_seconds, accessor, result>>
clockVars == <<ctlVars, hwVars, pollVars, ovfVars, tickVars, readVars, histVars>>
vars == <<ctlVars, hwVars, pollVars, ovfVars, tickVars, readVars, histVars, accVars>>

\* ---------------------------------------------------------------- helpers
\* uint32_t arithmetic: the value kept by a 32-bit register
U32(x) == x % Period

\* ((uint64_t)high << 32) | low, for low < 2^32
ShiftOr(high, low) == high * Period + low

\* millis() and micros() read the free-running narrow counter
millis == narrow
micros == narrow

\* real time since the baseline, in ticks of the narrow counter
\* (ESP32: alarms handled since the baseline)
Elapsed == nticks + nsleeps * UINT32_MAX

\* mutant: a division that rounds to the nearest millisecond
getMilliseconds_rounding(us) == (us \div 1000) + (IF us % 1000 >= 500 THEN 1 ELSE 0)

\* getMilliseconds() and getSeconds() are getMicroseconds() divided: applied
\* to the value us that the getMicroseconds() call inside them returned
getMilliseconds(us) == us \div 1000

getSeconds(us) == us \div 1000000

isInitialized == initialized

\* getMicroseconds() returns v: ret is the new value, prev the one before it
Return(v) ==
    /\ ret' = v
    /\ prev' = ret
    /\ readAt' = Elapsed

\* reset() and the initializing begin() start a new baseline: earlier reads
\* are no longer compared with later ones
ForgetReads ==
    /\ ret' = NoRead
    /\ prev' = NoRead
    /\ readAt' = 0

NewBaseline(how) ==
    /\ era' = how
    /\ nticks' = 0
    /\ nsleeps' = 0
    /\ sampleAt' = 0
    /\ gapsOK' = TRUE
    /\ wraps' = 0

\* ------------------------------------------------- generic (polling) backend
\* mutant: the wrap branch without its + 1
WrapSum_no_plus_one(last, current) == (UINT32_MAX - last) + current

\* the wrap branch of updateSoftwareTimer as an unbounded integer:
\* (UINT32_MAX - last_millis) + current + 1
WrapSum(last, current) == (UINT32_MAX - last) + current + 1

\* mutant: on a wrap only the part after the wrap is counted
Delta_wrap_ignored(last, current) ==
    IF current >= last THEN current - last ELSE current

\* mutant: a signed difference with no wrap branch
Delta_signed(last, current) == current - last

\* mutant: a smaller sample adds nothing
Delta_no_wrap_branch(last, current) ==
    IF current >= last THEN current - last ELSE 0

\* mutant: the no-wrap branch counts the sample itself
Delta_inclusive(last, current) ==
    IF current >= last
    THEN U32(current - last + 1)
    ELSE U32(WrapSum(last, current))

\* the delta of updateSoftwareTimer, in uint32_t arithmetic
Delta(last, current) ==
    IF current >= last
    THEN U32(current - last)
    ELSE U32(WrapSum(last, current))

\* mutant: the refresh without its `if (!initialized) return;`
updateSoftwareTimer_unguarded ==
    /\ total_millis' = total_millis + ((narrow + Period - last_millis) % Period)
    /\ last_millis' = narrow
    /\ sampleAt' = Elapsed
    /\ gapsOK' = (gapsOK /\ Elapsed - sampleAt < Period)

\* mutant: the refresh that does not move last_millis to the new sample
updateSoftwareTimer_keeps_last ==
    IF ~initialized
    THEN UNCHANGED <<last_millis, total_millis, sampleAt, gapsOK>>
    ELSE /\ total_millis' = total_millis + ((narrow + Period - last_millis) % Period)
         /\ last_millis' = last_millis
         /\ sampleAt' = Elapsed
         /\ gapsOK' = (gapsOK /\ Elapsed - sampleAt < Period)

\* updateSoftwareTimer(): one refresh of total_millis
updateSoftwareTimer ==
    IF ~initialized
    THEN UNCHANGED <<last_millis, total_millis, sampleAt, gapsOK>>
    ELSE LET current == millis
             delta == Delta(last_millis, current)
         IN /\ total_millis' = total_millis + delta
            /\ last_millis' = current
            /\ sampleAt' = Elapsed
            /\ gapsOK' = (gapsOK /\ Elapsed - sampleAt < Period)

\* mutant: begin() without its `if (initialized) return;`
begin_generic_unguarded ==
    /\ backend = "generic"
    /\ UNCHANGED accVars
    /\ begins < MaxBegins
    /\ begins' = begins + 1
    /\ last_millis' = narrow
    /\ total_millis' = 0
    /\ initialized' = TRUE
    /\ NewBaseline("begin")
    /\ ForgetReads
    /\ UNCHANGED <<backend, pc, req, hwVars, ovfVars, tickVars, readStart>>

begin_generic ==
    /\ backend = "generic"
    /\ UNCHANGED accVars
    /\ begins < MaxBegins
    /\ begins' = begins + 1
    /\ IF initialized
       THEN UNCHANGED <<initialized, pollVars, readVars, era, nticks, nsleeps,
                        sampleAt, gapsOK, wraps>>
       ELSE /\ last_millis' = millis
            /\ total_millis' = 0
            /\ initialized' = TRUE
            /\ NewBaseline("begin")
            /\ ForgetReads
    /\ UNCHANGED <<backend, pc, req, hwVars, ovfVars, tickVars, readStart>>

getMicroseconds_generic ==
    /\ backend = "generic"
    /\ UNCHANGED accVars
    /\ IF ~initialized
       THEN /\ Return(0)
            /\ UNCHANGED <<pollVars, sampleAt, gapsOK>>
       ELSE /\ updateSoftwareTimer
            /\ Return(total_millis' * 1000)
    /\ UNCHANGED <<ctlVars, hwVars, ovfVars, tickVars>>
    /\ UNCHANGED <<era, nticks, nsleeps, wraps, begins, readStart>>

update_generic ==
    /\ backend = "generic"
    /\ UNCHANGED accVars
    /\ updateSoftwareTimer
    /\ UNCHANGED <<ctlVars, hwVars, ovfVars, tickVars, readVars>>
    /\ UNCHANGED <<era, nticks, nsleeps, wraps, begins, readStart>>

\* mutant: reset() that also clears the initialized flag
reset_generic_uninitializes ==
    /\ backend = "generic"
    /\ UNCHANGED accVars
    /\ last_millis' = narrow
    /\ total_millis' = 0
    /\ initialized' = FALSE
    /\ ForgetReads
    /\ era' = "none"
    /\ nticks' = 0 /\ nsleeps' = 0 /\ sampleAt' = 0 /\ gapsOK' = TRUE /\ wraps' = 0
    /\ UNCHANGED <<backend, pc, req, hwVars, ovfVars, tickVars, begins, readStart>>

reset_generic ==
    /\ backend = "generic"
    /\ UNCHANGED accVars
    /\ last_millis' = millis
    /\ total_millis' = 0
    /\ ForgetReads
    /\ IF initialized
       THEN NewBaseline("reset")
       ELSE UNCHANGED <<era, nticks, nsleeps, sampleAt, gapsOK, wraps>>
    /\ UNCHANGED <<ctlVars, hwVars, ovfVars, tickVars, begins, readStart>>

\* one millisecond passes
Tick_millis ==
    /\ backend = "generic"
    /\ UNCHANGED accVars
    /\ narrow' = U32(narrow + 1)
    /\ IF initialized
       THEN /\ nticks < MaxTicks
            /\ nticks' = nticks + 1
            /\ wraps' = IF narrow = UINT32_MAX THEN wraps + 1 ELSE wraps
       ELSE UNCHANGED <<nticks, wraps>>
    /\ UNCHANGED <<ctlVars, irq, pollVars, ovfVars, tickVars, readVars>>
    /\ UNCHANGED <<era, nsleeps, sampleAt, gapsOK, begins, readStart>>

\* UINT32_MAX milliseconds pass with no call made (one tick short of a period)
Sleep_millis ==
    /\ backend = "generic"
    /\ UNCHANGED accVars
    /\ initialized
    /\ nsleeps < MaxSleeps
    /\ nsleeps' = nsleeps + 1
    /\ narrow' = U32(narrow + UINT32_MAX)
    /\ wraps' = IF narrow = 0 THEN wraps ELSE wraps + 1
    /\ UNCHANGED <<ctlVars, irq, pollVars, ovfVars, tickVars, readVars>>
    /\ UNCHANGED <<era, nticks, sampleAt, gapsOK, begins, readStart>>

NextGeneric ==
    \/ begin_generic
    \/ getMicroseconds_generic
    \/ update_generic
    \/ reset_generic
    \/ Tick_millis
    \/ Sleep_millis

\* ------------------------------------------- ESP8266 (overflow interrupt) backend
\* microsOverflowISR(): runs once for each wrap of micros(), at any point of
\* the mainline
microsOverflowISR ==
    /\ backend = "ESP8266"
    /\ UNCHANGED accVars
    /\ irq
    /\ irq' = FALSE
    /\ overflow_counter' = U32(overflow_counter + 1)
    /\ UNCHANGED <<ctlVars, narrow, pollVars, last_micros, total_micros,
                   current_micros, high_part, tickVars, readVars, histVars>>

\* one microsecond passes; a wrap of micros() raises the overflow interrupt
\* once the timer is armed
Tick_micros ==
    /\ backend = "ESP8266"
    /\ UNCHANGED accVars
    /\ narrow' = U32(narrow + 1)
    /\ IF initialized
       THEN /\ nticks < MaxTicks
            /\ nticks' = nticks + 1
            /\ wraps' = IF narrow = UINT32_MAX THEN wraps + 1 ELSE wraps
            /\ irq' = (irq \/ narrow = UINT32_MAX)
       ELSE UNCHANGED <<nticks, wraps, irq>>
    /\ UNCHANGED <<ctlVars, pollVars, ovfVars, tickVars, readVars>>
    /\ UNCHANGED <<era, nsleeps, sampleAt, gapsOK, begins, readStart>>

\* delay(): UINT32_MAX microseconds pass inside a delay() of the mainline (one
\* tick short of a period); interrupts stay enabled, so the overflow handler
\* runs during the delay for a pending interrupt and for the wrap of micros()
\* that the delay spans, if any
Sleep_micros ==
    /\ backend = "ESP8266"
    /\ UNCHANGED accVars
    /\ initialized
    /\ pc = "idle"
    /\ nsleeps < MaxSleeps
    /\ nsleeps' = nsleeps + 1
    /\ narrow' = U32(narrow + UINT32_MAX)
    /\ wraps' = IF narrow = 0 THEN wraps ELSE wraps + 1
    /\ overflow_counter' = U32(overflow_counter + (IF irq THEN 1 ELSE 0)
                                               + (IF narrow = 0 THEN 0 ELSE 1))
    /\ irq' = FALSE
    /\ UNCHANGED <<ctlVars, pollVars, last_micros, total_micros, current_micros,
                   high_part, tickVars, readVars>>
    /\ UNCHANGED <<era, nticks, sampleAt, gapsOK, begins, readStart>>

begin_ESP8266 ==
    /\ backend = "ESP8266"
    /\ UNCHANGED accVars
    /\ pc = "idle"
    /\ begins < MaxBegins
    /\ begins' = begins + 1
    /\ IF initialized
       THEN UNCHANGED <<initialized, irq, ovfVars, readVars, era, nticks, nsleeps,
                        sampleAt, gapsOK, wraps>>
       ELSE /\ last_micros' = micros
            /\ total_micros' = 0
            /\ overflow_counter' = 0
            /\ irq' = FALSE
            /\ initialized' = TRUE
            /\ NewBaseline("begin")
            /\ ForgetReads
            /\ UNCHANGED <<current_micros, high_part>>
    /\ UNCHANGED <<backend, pc, req, narrow, pollVars, tickVars, readStart>>

\* a public call that refreshes: update() (r = "update") or
\* getMicroseconds() (r = "get").  Uninitialized, getMicroseconds() returns 0
\* and update() returns at once; otherwise updateTime() starts:
\* current_micros = micros()
call_ESP8266(r) ==
    /\ backend = "ESP8266"
    /\ UNCHANGED accVars
    /\ pc = "idle"
    /\ IF ~initialized
       THEN /\ IF r = "get" THEN Return(0) ELSE UNCHANGED readVars
            /\ UNCHANGED <<pc, req, current_micros, readStart>>
       ELSE /\ current_micros' = micros
            /\ pc' = "upd_high"
            /\ req' = r
            /\ readStart' = overflow_counter
            /\ UNCHANGED readVars
    /\ UNCHANGED <<backend, initialized, hwVars, pollVars, overflow_counter,
                   last_micros, total_micros, high_part, tickVars>>
    /\ UNCHANGED <<era, nticks, nsleeps, sampleAt, gapsOK, wraps, begins>>

\* updateTime(): high_part = overflow_counter
updateTime_high ==
    /\ backend = "ESP8266"
    /\ UNCHANGED accVars
    /\ pc = "upd_high"
    /\ high_part' = overflow_counter
    /\ pc' = "upd_store"
    /\ UNCHANGED <<backend, initialized, req, hwVars, pollVars, overflow_counter,
                   last_micros, total_micros, current_micros, tickVars, readVars,
                   histVars>>

\* the high part updateTime() stores
HighPart(high, current, last) ==
    IF current < last THEN U32(high + 1) ELSE high

\* updateTime(): the comparison with last_micros, the two stores, and the
\* return of total_micros when getMicroseconds() made the call
updateTime_store ==
    /\ backend = "ESP8266"
    /\ UNCHANGED accVars
    /\ pc = "upd_store"
    /\ total_micros' = ShiftOr(HighPart(high_part, current_micros, last_micros),
                               current_micros)
    /\ last_micros' = current_micros
    /\ current_micros' = 0
    /\ high_part' = 0
    /\ IF req = "get" THEN Return(total_micros') ELSE UNCHANGED readVars
    /\ pc' = "idle"
    /\ req' = "none"
    /\ readStart' = 0
    /\ UNCHANGED <<backend, initialized, hwVars, pollVars, overflow_counter, tickVars>>
    /\ UNCHANGED <<era, nticks, nsleeps, sampleAt, gapsOK, wraps, begins>>

\* reset(): last_micros = micros(); total_micros = 0;
reset_ESP8266 ==
    /\ backend = "ESP8266"
    /\ UNCHANGED accVars
    /\ pc = "idle"
    /\ last_micros' = micros
    /\ total_micros' = 0
    /\ pc' = "rst_counter"
    /\ req' = "reset"
    /\ ForgetReads
    /\ IF initialized
       THEN NewBaseline("reset")
       ELSE UNCHANGED <<era, nticks, nsleeps, sampleAt, gapsOK, wraps>>
    /\ UNCHANGED <<backend, initialized, hwVars, pollVars, overflow_counter,
                   current_micros, high_part, tickVars, begins, readStart>>

\* reset(): overflow_counter = 0;
reset_ESP8266_counter ==
    /\ backend = "ESP8266"
    /\ UNCHANGED accVars
    /\ pc = "rst_counter"
    /\ overflow_counter' = 0
    /\ pc' = "idle"
    /\ req' = "none"
    /\ UNCHANGED <<backend, initialized, hwVars, pollVars, last_micros, total_micros,
                   current_micros, high_part, tickVars, readVars, histVars>>

NextESP8266 ==
    \/ begin_ESP8266
    \/ \E r \in {"get", "update"} : call_ESP8266(r)
    \/ updateTime_high
    \/ updateTime_store
    \/ reset_ESP8266
    \/ reset_ESP8266_counter
    \/ Tick_micros
    \/ microsOverflowISR

\* --------------------------------------------- ESP32 (hardware tick) backend
\* the 64-bit value held by the two words of time_fct_micros
Wide(hi, lo) == hi * Period + lo

\* portENTER_CRITICAL(&timerMux) in the mainline: taken when no one holds it
portENTER_CRITICAL ==
    /\ timerMux = "free"
    /\ timerMux' = "main"

\* portEXIT_CRITICAL(&timerMux): released by the mainline that holds it
portEXIT_CRITICAL ==
    /\ timerMux = "main"
    /\ timerMux' = "free"

\* portENTER_CRITICAL_ISR(&timerMux): the handler starts only while the
\* mainline is outside its critical section
portENTER_CRITICAL_ISR ==
    /\ timerMux = "free"
    /\ timerMux' = "isr"

\* timerISR(): the alarm fires and the handler enters its critical section
timerISR_enter ==
    /\ backend = "ESP32"
    /\ UNCHANGED accVars
    /\ initialized
    /\ isrpc = "idle"
    /\ nticks < MaxAlarms
    /\ portENTER_CRITICAL_ISR
    /\ isrpc' = "lo"
    /\ UNCHANGED <<ctlVars, hwVars, pollVars, ovfVars, time_lo, time_hi, carry,
                   rd_lo, rd_hi, timer_arms, readVars, histVars>>

\* time_fct_micros++ : the low word
timerISR_lo ==
    /\ backend = "ESP32"
    /\ UNCHANGED accVars
    /\ isrpc = "lo"
    /\ time_lo' = U32(time_lo + 1)
    /\ carry' = IF time_lo = UINT32_MAX THEN 1 ELSE 0
    /\ nticks' = nticks + 1
    /\ isrpc' = "hi"
    /\ UNCHANGED <<ctlVars, hwVars, pollVars, ovfVars, time_hi, timerMux,
                   rd_lo, rd_hi, timer_arms, readVars>>
    /\ UNCHANGED <<era, nsleeps, sampleAt, gapsOK, wraps, begins, readStart>>

\* mutant: the increment that drops the carry into the high word
timerISR_hi_no_carry ==
    /\ backend = "ESP32"
    /\ UNCHANGED accVars
    /\ isrpc = "hi"
    /\ time_hi' = time_hi
    /\ carry' = 0
    /\ isrpc' = "exit"
    /\ UNCHANGED <<ctlVars, hwVars, pollVars, ovfVars, time_lo, timerMux,
                   rd_lo, rd_hi, timer_arms, readVars, histVars>>

\* time_fct_micros++ : the high word
timerISR_hi ==
    /\ backend = "ESP32"
    /\ UNCHANGED accVars
    /\ isrpc = "hi"
    /\ time_hi' = U32(time_hi + carry)
    /\ carry' = 0
    /\ isrpc' = "exit"
    /\ UNCHANGED <<ctlVars, hwVars, pollVars, ovfVars, time_lo, timerMux,
                   rd_lo, rd_hi, timer_arms, readVars, histVars>>

\* portEXIT_CRITICAL_ISR(&timerMux)
timerISR_exit ==
    /\ backend = "ESP32"
    /\ UNCHANGED accVars
    /\ isrpc = "exit"
    /\ timerMux' = "free"
    /\ isrpc' = "idle"
    /\ UNCHANGED <<ctlVars, hwVars, pollVars, ovfVars, time_lo, time_hi, carry,
                   rd_lo, rd_hi, timer_arms, readVars, histVars>>

begin_ESP32 ==
    /\ backend = "ESP32"
    /\ UNCHANGED accVars
    /\ pc = "idle"
    /\ begins < MaxBegins
    /\ begins' = begins + 1
    /\ IF initialized
       THEN UNCHANGED <<initialized, timer_arms, readVars, era, nticks, nsleeps,
                        sampleAt, gapsOK, wraps>>
       ELSE /\ timer_arms' = timer_arms + 1
            /\ initialized' = TRUE
            /\ NewBaseline("begin")
            /\ ForgetReads
    /\ UNCHANGED <<backend, pc, req, hwVars, pollVars, ovfVars, time_lo, time_hi,
                   timerMux, isrpc, carry, rd_lo, rd_hi, readStart>>

\* update(): nothing to do on ESP32
update_ESP32 ==
    /\ backend = "ESP32"
    /\ UNCHANGED accVars
    /\ pc = "idle"
    /\ UNCHANGED vars

\* mutant: getMicroseconds() reading time_fct_micros outside any critical
\* section
getMicroseconds_ESP32_unlocked ==
    /\ backend = "ESP32"
    /\ UNCHANGED accVars
    /\ pc = "idle"
    /\ IF ~initialized
       THEN /\ Return(0)
            /\ UNCHANGED <<pc, req, readStart>>
       ELSE /\ pc' = "get_lo"
            /\ req' = "get"
            /\ readStart' = nticks
            /\ UNCHANGED readVars
    /\ UNCHANGED <<backend, initialized, hwVars, pollVars, ovfVars, tickVars>>
    /\ UNCHANGED <<era, nticks, nsleeps, sampleAt, gapsOK, wraps, begins>>

\* getMicroseconds(): returns 0 when not initialized, else enters the
\* critical section
getMicroseconds_ESP32 ==
    /\ backend = "ESP32"
    /\ UNCHANGED accVars
    /\ pc = "idle"
    /\ IF ~initialized
       THEN /\ Return(0)
            /\ UNCHANGED <<pc, req, timerMux, readStart>>
       ELSE /\ portENTER_CRITICAL
            /\ pc' = "get_lo"
            /\ req' = "get"
            /\ readStart' = nticks
            /\ UNCHANGED readVars
    /\ UNCHANGED <<backend, initialized, hwVars, pollVars, ovfVars, time_lo, time_hi,
                   isrpc, carry, rd_lo, rd_hi, timer_arms>>
    /\ UNCHANGED <<era, nticks, nsleeps, sampleAt, gapsOK, wraps, begins>>

\* time = time_fct_micros : the low word
getMicroseconds_ESP32_lo ==
    /\ backend = "ESP32"
    /\ UNCHANGED accVars
    /\ pc = "get_lo"
    /\ rd_lo' = time_lo
    /\ pc' = "get_hi"
    /\ UNCHANGED <<backend, initialized, req, hwVars, pollVars, ovfVars, time_lo,
                   time_hi, timerMux, isrpc, carry, rd_hi, timer_arms, readVars,
                   histVars>>

\* time = time_fct_micros : the high word
getMicroseconds_ESP32_hi ==
    /\ backend = "ESP32"
    /\ UNCHANGED accVars
    /\ pc = "get_hi"
    /\ rd_hi' = time_hi
    /\ pc' = "get_exit"
    /\ UNCHANGED <<backend, initialized, req, hwVars, pollVars, ovfVars, time_lo,
                   time_hi, timerMux, isrpc, carry, rd_lo, timer_arms, readVars,
                   histVars>>

\* mutant: getMicroseconds() returning without portEXIT_CRITICAL
getMicroseconds_ESP32_exit_keeps_mux ==
    /\ backend = "ESP32"
    /\ UNCHANGED accVars
    /\ pc = "get_exit"
    /\ timerMux' = timerMux
    /\ Return(Wide(rd_hi, rd_lo))
    /\ rd_lo' = 0
    /\ rd_hi' = 0
    /\ readStart' = 0
    /\ pc' = "idle"
    /\ req' = "none"
    /\ UNCHANGED <<backend, initialized, hwVars, pollVars, ovfVars, time_lo, time_hi,
                   isrpc, carry, timer_arms>>
    /\ UNCHANGED <<era, nticks, nsleeps, sampleAt, gapsOK, wraps, begins>>

\* portEXIT_CRITICAL(&timerMux); return time;
getMicroseconds_ESP32_exit ==
    /\ backend = "ESP32"
    /\ UNCHANGED accVars
    /\ pc = "get_exit"
    /\ portEXIT_CRITICAL
    /\ Return(Wide(rd_hi, rd_lo))
    /\ rd_lo' = 0
    /\ rd_hi' = 0
    /\ readStart' = 0
    /\ pc' = "idle"
    /\ req' = "none"
    /\ UNCHANGED <<backend, initialized, hwVars, pollVars, ovfVars, time_lo, time_hi,
                   isrpc, carry, timer_arms>>
    /\ UNCHANGED <<era, nticks, nsleeps, sampleAt, gapsOK, wraps, begins>>

\* reset(): enters the critical section
reset_ESP32 ==
    /\ backend = "ESP32"
    /\ UNCHANGED accVars
    /\ pc = "idle"
    /\ portENTER_CRITICAL
    /\ pc' = "rst_lo"
    /\ req' = "reset"
    /\ ForgetReads
    /\ IF initialized
       THEN NewBaseline("reset")
       ELSE UNCHANGED <<era, nticks, nsleeps, sampleAt, gapsOK, wraps>>
    /\ UNCHANGED <<backend, initialized, hwVars, pollVars, ovfVars, time_lo, time_hi,
                   isrpc, carry, rd_lo, rd_hi, timer_arms, begins, readStart>>

\* time_fct_micros = 0 : the low word
reset_ESP32_lo ==
    /\ backend = "ESP32"
    /\ UNCHANGED accVars
    /\ pc = "rst_lo"
    /\ time_lo' = 0
    /\ pc' = "rst_hi"
    /\ UNCHANGED <<backend, initialized, req, hwVars, pollVars, ovfVars, time_hi,
                   timerMux, isrpc, carry, rd_lo, rd_hi, timer_arms, readVars,
                   histVars>>

\* time_fct_micros = 0 : the high word
reset_ESP32_hi ==
    /\ backend = "ESP32"
    /\ UNCHANGED accVars
    /\ pc = "rst_hi"
    /\ time_hi' = 0
    /\ pc' = "rst_exit"
    /\ UNCHANGED <<backend, initialized, req, hwVars, pollVars, ovfVars, time_lo,
                   timerMux, isrpc, carry, rd_lo, rd_hi, timer_arms, readVars,
                   histVars>>

\* portEXIT_CRITICAL(&timerMux)
reset_ESP32_exit ==
    /\ backend = "ESP32"
    /\ UNCHANGED accVars
    /\ pc = "rst_exit"
    /\ portEXIT_CRITICAL
    /\ pc' = "idle"
    /\ req' = "none"
    /\ UNCHANGED <<backend, initialized, hwVars, pollVars, ovfVars, time_lo, time_hi,
                   isrpc, carry, rd_lo, rd_hi, timer_arms, readVars, histVars>>

NextESP32 ==
    \/ begin_ESP32
    \/ update_ESP32
    \/ getMicroseconds_ESP32
    \/ getMicroseconds_ESP32_lo
    \/ getMicroseconds_ESP32_hi
    \/ getMicroseconds_ESP32_exit
    \/ reset_ESP32
    \/ reset_ESP32_lo
    \/ reset_ESP32_hi
    \/ reset_ESP32_exit
    \/ timerISR_enter
    \/ timerISR_lo
    \/ timerISR_hi
    \/ timerISR_exit

Next ==
    \/ NextGeneric
    \/ NextESP8266
    \/ NextESP32

\* ------------------------------------------------ accessors (pure functions)
\* The accessors below getMicroseconds() are pure functions of the value the
\* read inside them returned.  They are applied to inputs drawn from the sets
\* InputMicros (a microsecond value) and InputSeconds (the local total_seconds
\* of getFormattedTime: its microsecond value would not fit the checker's
\* integers).
InputMicros ==
    {0, 1, 999, 1000, 1001, 1999, 2000, 999999, 1000000, 1000001, 1999999,
     2000000, 2147483647}

InputSeconds ==
    {0, 1, 59, 60, 61, 3599, 3600, 3661, 86399, 86400, 86401, 90061, 172799,
     864000, 8640000, 2147483647}

\* mutant: hours not reduced to the hours of the day
FormattedTime_total_hours(S) ==
    [days |-> S \div 86400, hours |-> S \div 3600,
     minutes |-> (S % 3600) \div 60, seconds |-> (S % 3600) % 60]

\* getFormattedTime(): the four fields computed from total_seconds
FormattedTime(S) ==
    LET days == S \div 86400
        remaining1 == S % 86400
        hours == remaining1 \div 3600
        remaining2 == remaining1 % 3600
        minutes == remaining2 \div 60
        seconds == remaining2 % 60
    IN [days |-> days, hours |-> hours, minutes |-> minutes, seconds |-> seconds]

\* a text is the sequence of its characters
DigitChar(d) == <<"0", "1", "2", "3", "4", "5", "6", "7", "8", "9">>[d + 1]

\* %llu / %lu : the decimal digits of n
RECURSIVE Decimal(_)
Decimal(n) ==
    IF n < 10 THEN <<DigitChar(n)>> ELSE Decimal(n \div 10) \o <<DigitChar(n % 10)>>

\* mutant: %lu, no padding
Pad2_none(n) == Decimal(n)

\* %02lu : at least two digits, padded with zeros
Pad2(n) == IF n < 10 THEN <<"0">> \o Decimal(n) ELSE Decimal(n)

\* sizeof(buffer) in getFormattedString
BufferSize == 64

\* snprintf(buffer, sizeof(buffer), ...): at most sizeof(buffer) - 1 characters
snprintf(text) ==
    IF Len(text) < BufferSize THEN text ELSE SubSeq(text, 1, BufferSize - 1)

\* getFormattedString(): the text built from the four fields
FormattedString(S) ==
    LET f == FormattedTime(S)
        clock == Pad2(f.hours) \o <<":">> \o Pad2(f.minutes) \o <<":">> \o Pad2(f.seconds)
    IN IF f.days > 0
       THEN snprintf(Decimal(f.days) \o <<" ", "j", "o", "u", "r", "s", ",", " ">> \o clock)
       ELSE snprintf(clock)

\* String::length() and String::indexOf(c): 0-based, -1 when c is absent
length(text) == Len(text)

indexOf(text, c) ==
    IF \E i \in 1..Len(text) : text[i] = c
    THEN (CHOOSE i \in 1..Len(text) :
              text[i] = c /\ \A j \in 1..(i - 1) : text[j] # c) - 1
    ELSE 0 - 1

\* 2^64 exceeds the checker's integers: pow(2, 64) and its quotients are
\* computed on sequences of decimal digits, most significant digit first
RECURSIVE Times(_, _, _)
Times(digits, k, c) ==
    IF digits = <<>>
    THEN IF c = 0 THEN <<>> ELSE Times(<<>>, k, c \div 10) \o <<c % 10>>
    ELSE LET v == k * digits[Len(digits)] + c
         IN Times(SubSeq(digits, 1, Len(digits) - 1), k, v \div 10) \o <<v % 10>>

\* pow(2, n), sixteen doublings at a time where n allows
RECURSIVE pow2(_)
pow2(n) ==
    IF n = 0 THEN <<1>>
    ELSE IF n >= 16 THEN Times(pow2(n - 16), 65536, 0)
    ELSE Times(pow2(n - 1), 2, 0)

\* the remainder and the quotient (same number of digits) of a division by d
RECURSIVE Remainder(_, _)
Remainder(digits, d) ==
    IF digits = <<>>
    THEN 0
    ELSE (Remainder(SubSeq(digits, 1, Len(digits) - 1), d) * 10
            + digits[Len(digits)]) % d

RECURSIVE Quotient(_, _)
Quotient(digits, d) ==
    IF digits = <<>>
    THEN <<>>
    ELSE LET front == SubSeq(digits, 1, Len(digits) - 1)
         IN Quotient(front, d)
              \o <<(Remainder(front, d) * 10 + digits[Len(digits)]) \div d>>

\* the number a sequence of digits stands for
RECURSIVE ToNat(_)
ToNat(digits) ==
    IF digits = <<>>
    THEN 0
    ELSE ToNat(SubSeq(digits, 1, Len(digits) - 1)) * 10 + digits[Len(digits)]

\* mutant: the range of a signed 64-bit counter
OverflowYears_signed ==
    ToNat(Quotient(Quotient(Quotient(Quotient(pow2(63), 1000000), 3600), 24), 365))

\* the integer part of pow(2, 64) / 1000000.0 / 3600.0 / 24.0 / 365.0 (the
\* quotient is 584942.417...: the rounding of the double divisions does not
\* reach its integer part)
OverflowYears ==
    ToNat(Quotient(Quotient(Quotient(Quotient(pow2(64), 1000000), 3600), 24), 365))

\* getOverflowYears(): recorded by its integer part
getOverflowYears ==
    /\ accessor' = "getOverflowYears"
    /\ result' = OverflowYears
    /\ UNCHANGED <<clockVars, read_us, total_seconds>>

\* getMilliseconds() applied to the value read_us of its inner read
getMilliseconds_of ==
    /\ accessor' = "getMilliseconds"
    /\ result' = getMilliseconds(read_us)
    /\ UNCHANGED <<clockVars, read_us, total_seconds>>

\* getSeconds() applied to the value read_us of its inner read
getSeconds_of ==
    /\ accessor' = "getSeconds"
    /\ result' = getSeconds(read_us)
    /\ UNCHANGED <<clockVars, read_us, total_seconds>>

\* getFormattedTime() from its local total_seconds
getFormattedTime ==
    /\ accessor' = "getFormattedTime"
    /\ result' = FormattedTime(total_seconds)
    /\ UNCHANGED <<clockVars, read_us, total_seconds>>

\* getFormattedString() from the total_seconds of its getFormattedTime()
getFormattedString ==
    /\ accessor' = "getFormattedString"
    /\ result' = FormattedString(total_seconds)
    /\ UNCHANGED <<clockVars, read_us, total_seconds>>

\* ---------------------------------------------------------------- initial state
InitFor(b) ==
    /\ backend = b
    /\ initialized = FALSE
    /\ pc = "idle"
    /\ req = "none"
    /\ narrow \in (IF b = "ESP32" THEN {0} ELSE 0..UINT32_MAX)
    /\ irq = FALSE
    /\ last_millis = 0 /\ total_millis = 0
    /\ overflow_counter = 0 /\ last_micros = 0 /\ total_micros = 0
    /\ current_micros = 0 /\ high_part = 0
    /\ time_lo = 0 /\ time_hi = 0
    /\ timerMux = "free"
    /\ isrpc = "idle" /\ carry = 0
    /\ rd_lo = 0 /\ rd_hi = 0
    /\ timer_arms = 0
    /\ ret = NoRead /\ prev = NoRead /\ readAt = 0
    /\ era = "none" /\ nticks = 0 /\ nsleeps = 0 /\ sampleAt = 0
    /\ gapsOK = TRUE /\ wraps = 0 /\ begins = 0 /\ readStart = 0
    /\ read_us = 0 /\ total_seconds = 0 /\ accessor = "none" /\ result = 0

InitGeneric == InitFor("generic")

SpecGeneric == InitGeneric /\ [][NextGeneric]_vars

\* the inputs of updateSoftwareTimer drawn from every pair of samples: an
\* initialized generic clock with any last_millis, read at any millis()
InitDelta ==
    /\ backend = "generic"
    /\ initialized = TRUE
    /\ pc = "idle"
    /\ req = "none"
    /\ narrow \in 0..UINT32_MAX
    /\ irq = FALSE
    /\ last_millis \in 0..UINT32_MAX
    /\ total_millis = 0
    /\ overflow_counter = 0 /\ last_micros = 0 /\ total_micros = 0
    /\ current_micros = 0 /\ high_part = 0
    /\ time_lo = 0 /\ time_hi = 0
    /\ timerMux = "free"
    /\ isrpc = "idle" /\ carry = 0
    /\ rd_lo = 0 /\ rd_hi = 0
    /\ timer_arms = 0
    /\ ret = NoRead /\ prev = NoRead /\ readAt = 0
    /\ era = "begin" /\ nticks = 0 /\ nsleeps = 0 /\ sampleAt = 0
    /\ gapsOK = TRUE /\ wraps = 0 /\ begins = 1 /\ readStart = 0
    /\ read_us = 0 /\ total_seconds = 0 /\ accessor = "none" /\ result = 0

NextDelta == update_generic

SpecDelta == InitDelta /\ [][NextDelta]_vars

InitESP8266 == InitFor("ESP8266")

SpecESP8266 == InitESP8266 /\ [][NextESP8266]_vars

InitESP32 == InitFor("ESP32")

SpecESP32 == InitESP32 /\ [][NextESP32]_vars

\* the steps of the mainline inside a getMicroseconds() or reset() call, and
\* the steps of a handler that has started
MainlineESP32 ==
    \/ getMicroseconds_ESP32_lo
    \/ getMicroseconds_ESP32_hi
    \/ getMicroseconds_ESP32_exit
    \/ reset_ESP32_lo
    \/ reset_ESP32_hi
    \/ reset_ESP32_exit

HandlerESP32 ==
    \/ timerISR_lo
    \/ timerISR_hi
    \/ timerISR_exit

\* scheduling: the mainline thread keeps running inside a call, and a handler
\* that has started runs to its end; when the alarm fires is not constrained
SpecESP32Live ==
    /\ InitESP32
    /\ [][NextESP32]_vars
    /\ WF_vars(MainlineESP32)
    /\ WF_vars(HandlerESP32)

Init == \E b \in Backends : InitFor(b)

Spec == Init /\ [][Next]_vars

\* the three backends with a delay() of the mainline in the ESP8266 backend
\* too (the generic backend has Sleep_millis)
NextDelay ==
    \/ Next
    \/ Sleep_micros

SpecDelay == Init /\ [][NextDelay]_vars

\* the accessors applied to drawn inputs, in any state of a generic clock that
\* begin() and reset() reach with no time passing
InitUnits ==
    /\ backend = "generic"
    /\ initialized = FALSE
    /\ pc = "idle"
    /\ req = "none"
    /\ narrow \in {0, UINT32_MAX}
    /\ irq = FALSE
    /\ last_millis = 0 /\ total_millis = 0
    /\ overflow_counter = 0 /\ last_micros = 0 /\ total_micros = 0
    /\ current_micros = 0 /\ high_part = 0
    /\ time_lo = 0 /\ time_hi = 0
    /\ timerMux = "free"
    /\ isrpc = "idle" /\ carry = 0
    /\ rd_lo = 0 /\ rd_hi = 0
    /\ timer_arms = 0
    /\ ret = NoRead /\ prev = NoRead /\ readAt = 0
    /\ era = "none" /\ nticks = 0 /\ nsleeps = 0 /\ sampleAt = 0
    /\ gapsOK = TRUE /\ wraps = 0 /\ begins = 0 /\ readStart = 0
    /\ read_us \in InputMicros
    /\ total_seconds \in InputSeconds
    /\ accessor = "none"
    /\ result = 0

NextUnits ==
    \/ getMilliseconds_of
    \/ getSeconds_of
    \/ getFormattedTime
    \/ getFormattedString
    \/ getOverflowYears
    \/ begin_generic
    \/ reset_generic

SpecUnits == InitUnits /\ [][NextUnits]_vars

\* ------------------------------------------------------------------ claims
\* C1: on ESP8266, of two getMicroseconds() values t1 (prev) then t2 (ret)
\* with no reset() between them, t2 >= t1, for every placement of the reads
\* relative to a wrap of micros() and every interleaving of the overflow
\* handler with updateTime().
C1_MonotonicESP8266 ==
    (backend = "ESP8266" /\ prev # NoRead /\ ret # NoRead) => ret >= prev

\* one millisecond of real time in ticks of the backend's counter, and the
\* value 1000 us in the unit the backend returns
TicksPerMs == IF backend = "generic" THEN 1 ELSE UsPerMs

NearZero == IF backend = "generic" THEN 1000 ELSE UsPerMs

\* C2: in each backend, after begin(), a getMicroseconds() made less than
\* 1 ms after reset() returns a value below 1000 (one millisecond), whatever
\* the narrow counter holds and whatever had accumulated before the reset.
C2_ResetNearZero ==
    (initialized /\ era = "reset" /\ ret # NoRead /\ readAt < TicksPerMs)
        => ret < NearZero

\* C3: generic backend: while every gap between two samples of millis() is
\* below one period, total_millis is the number of milliseconds that had
\* elapsed since the baseline (the initializing begin() or the last reset())
\* when it was last refreshed, and getMicroseconds() returned 1000 times the
\* milliseconds elapsed at the call.
C3_PollingExact ==
    (backend = "generic" /\ initialized /\ gapsOK)
        => /\ total_millis = sampleAt
           /\ (ret # NoRead => ret = readAt * 1000)

C3_Witness ==
    /\ backend = "generic" /\ initialized /\ gapsOK
    /\ era = "reset"
    /\ nsleeps = 1
    /\ last_millis < sampleAt
    /\ total_millis = sampleAt
    /\ ret = total_millis * 1000
    /\ ret > 0

\* C4: as long as begin() has not been called, isInitialized() is false,
\* getMicroseconds(), getMilliseconds() and getSeconds() return 0, the
\* accumulated totals stay 0 and the mainline never enters a refresh, for any
\* value of the hardware counter and any update() and reset() calls.
C4_UninitializedZero ==
    begins = 0
        => /\ ~isInitialized
           /\ ret \in {NoRead, 0}
           /\ (ret # NoRead => getMilliseconds(ret) = 0 /\ getSeconds(ret) = 0)
           /\ total_millis = 0 /\ total_micros = 0
           /\ time_lo = 0 /\ time_hi = 0 /\ overflow_counter = 0
           /\ pc \notin {"upd_high", "upd_store", "get_lo", "get_hi", "get_exit"}

C4_Witness ==
    /\ begins = 0
    /\ ~isInitialized
    /\ ret = 0
    /\ narrow > 0
    /\ backend = "generic" /\ last_millis > 0 /\ last_millis # narrow

\* C5: ESP32: the value a getMicroseconds() call is about to return is a
\* value the 64-bit counter held during the call (at least the counter at the
\* call, at most the counter now): never a mix of the words of two values.
C5_NoTornRead ==
    (backend = "ESP32" /\ pc = "get_exit")
        => /\ readStart <= Wide(rd_hi, rd_lo)
           /\ Wide(rd_hi, rd_lo) <= nticks

C5_Witness ==
    /\ backend = "ESP32" /\ pc = "get_exit"
    /\ rd_hi = 1 /\ rd_lo = 0
    /\ nticks = Period

\* C6: ESP8266: getMicroseconds() returns the time elapsed since begin(),
\* whatever micros() held at begin(): a read made less than 1 ms after
\* begin() returns less than 1 ms.
C6_SinceBeginESP8266 ==
    (backend = "ESP8266" /\ initialized /\ era = "begin" /\ ret # NoRead
     /\ readAt < UsPerMs)
        => ret < UsPerMs

\* C7: generic backend: of two getMicroseconds() values t1 (prev) then t2
\* (ret) with no reset() between them, t2 >= t1, across wraps of millis() and
\* when more than one period passes between refreshes.
C7_MonotonicGeneric ==
    (backend = "generic" /\ prev # NoRead /\ ret # NoRead) => ret >= prev

C7_Witness ==
    /\ backend = "generic"
    /\ prev # NoRead /\ ret > prev
    /\ ~gapsOK
    /\ wraps >= 1
    /\ last_millis * 1000 < prev

\* C8: every refresh adds (current - last) mod 2^32 to total_millis, the
\* wrap branch (UINT32_MAX - last) + current + 1 stays within 32 bits at each
\* step, and the samples UINT32_MAX - 15 (0xFFFFFFF0) then 5 add 21.
C8_DeltaModular ==
    [][/\ total_millis' - total_millis = (narrow + Period - last_millis) % Period
       /\ (narrow < last_millis =>
              /\ (UINT32_MAX - last_millis) + narrow <= UINT32_MAX
              /\ WrapSum(last_millis, narrow) <= UINT32_MAX
              /\ total_millis' - total_millis = WrapSum(last_millis, narrow))
       /\ (narrow >= last_millis =>
              total_millis' - total_millis = narrow - last_millis)
       /\ ((last_millis = UINT32_MAX - 15 /\ narrow = 5) =>
              total_millis' - total_millis = 21)]_vars

C8_Witness ==
    /\ total_millis = 21
    /\ last_millis = 5
    /\ narrow = 5
    /\ sampleAt = 0

\* C9: a begin() call made when initialized is already true changes no state:
\* the baseline, the totals, the counters, the timer and the values later
\* reads return are as if the call had not been made.
C9_BeginIdempotent ==
    [][(initialized /\ begins' = begins + 1)
          => UNCHANGED <<ctlVars, hwVars, pollVars, ovfVars, tickVars, readVars,
                         era, nticks, nsleeps, sampleAt, gapsOK, wraps, readStart>>]_vars

C9_Witness ==
    /\ initialized
    /\ begins = 2
    /\ total_millis > 0
    /\ last_millis # narrow

\* C10: initialized is false at start, only a begin() call makes it true, and
\* no operation (reset() included, before or after begin()) changes it back.
C10_InitializedLatch ==
    /\ ~initialized
    /\ [][/\ (initialized => initialized')
          /\ ((~initialized /\ initialized') => begins' = begins + 1)
          /\ ((reset_generic \/ reset_ESP8266 \/ reset_ESP8266_counter \/ reset_ESP32
               \/ reset_ESP32_lo \/ reset_ESP32_hi \/ reset_ESP32_exit)
                 => initialized' = initialized)]_vars

C10_Witness ==
    /\ initialized
    /\ era = "reset"
    /\ nticks > 0

\* the delay(10) of test_time_increases, in milliseconds
DelayMs == 10

\* 10 ms in ticks of the backend's counter
TenMs == IF backend = "generic" THEN DelayMs ELSE DelayMs * UsPerMs

\* C11: in each backend, after begin(), a getMicroseconds() value t2 returned
\* at least 10 ms and less than one narrow period after the value t1 before
\* it, with no reset() between the two, is strictly greater than t1.
C11_StrictIncrease ==
    [][(/\ initialized
        /\ ret # NoRead /\ ret' # NoRead /\ prev' = ret /\ readAt' = Elapsed
        /\ Elapsed - readAt >= TenMs
        /\ Elapsed - readAt < Period)
          => ret' > ret]_vars

\* C12: generic backend: a refresh made k * 2^32 + r ms after the refresh (or
\* baseline) before it adds exactly r and changes nothing but total_millis,
\* last_millis and the value returned; so at its last refresh total_millis is
\* at most the time elapsed since the last begin()/reset() and falls short of
\* it by a whole number of periods.
C12_MissedWraps ==
    /\ []((backend = "generic" /\ initialized)
            => /\ total_millis <= sampleAt
               /\ sampleAt <= Elapsed
               /\ (sampleAt - total_millis) % Period = 0
               /\ (gapsOK => total_millis = sampleAt))
    /\ [][(initialized /\ (update_generic \/ getMicroseconds_generic))
            => /\ total_millis' = total_millis + ((Elapsed - sampleAt) % Period)
               /\ last_millis' = millis
               /\ (sampleAt' - total_millis') - (sampleAt - total_millis)
                    = ((Elapsed - sampleAt) \div Period) * Period
               /\ UNCHANGED <<ctlVars, hwVars, ovfVars, tickVars>>]_vars

C12_Witness ==
    /\ backend = "generic" /\ initialized
    /\ ~gapsOK
    /\ sampleAt = Period + 2
    /\ total_millis = 2
    /\ ret = 2000

C14_FormattedTime ==
    accessor = "getFormattedTime"
        => /\ result.days \in Nat /\ result.hours \in Nat
           /\ result.minutes \in Nat /\ result.seconds \in Nat
           /\ result.days * 86400 + result.hours * 3600 + result.minutes * 60
                + result.seconds = total_seconds
           /\ result.hours < 24 /\ result.minutes < 60 /\ result.seconds < 60
           /\ (total_seconds = 90061 =>
                  result = [days |-> 1, hours |-> 1, minutes |-> 1, seconds |-> 1])

C14_Witness ==
    /\ accessor = "getFormattedTime"
    /\ total_seconds = 90061
    /\ result.days = 1 /\ result.seconds = 1

\* the digit a character stands for, and the number two characters of a text
\* stand for
DigitVal(c) == CHOOSE d \in 0..9 : DigitChar(d) = c

TwoDigits(text, i) ==
    IF \A k \in {i, i + 1} : \E d \in 0..9 : DigitChar(d) = text[k]
    THEN 10 * DigitVal(text[i]) + DigitVal(text[i + 1])
    ELSE 0 - 1

\* text is HH:MM:SS for the fields f: eight characters, two digits per field
IsClockText(text, f) ==
    /\ Len(text) = 8
    /\ text[3] = ":" /\ text[6] = ":"
    /\ TwoDigits(text, 1) = f.hours
    /\ TwoDigits(text, 4) = f.minutes
    /\ TwoDigits(text, 7) = f.seconds

\* the text getFormattedString() returned is HH:MM:SS when the elapsed days
\* are 0 and the days followed by daysWord and HH:MM:SS otherwise, it is
\* 1, daysWord, 01:01:01 for 90061 s, it is not empty and has a ':' at an
\* index greater than 0
FormatIs(daysWord) ==
    accessor = "getFormattedString"
        => LET f == FormattedTime(total_seconds)
               head == Decimal(f.days) \o daysWord
           IN /\ (f.days = 0 => IsClockText(result, f))
              /\ (f.days > 0 =>
                     /\ Len(result) = Len(head) + 8
                     /\ SubSeq(result, 1, Len(head)) = head
                     /\ IsClockText(SubSeq(result, Len(head) + 1, Len(result)), f))
              /\ (total_seconds = 90061 =>
                     result = <<"1">> \o daysWord
                                \o <<"0", "1", ":", "0", "1", ":", "0", "1">>)
              /\ length(result) > 0
              /\ indexOf(result, ":") > 0

C16_OverflowYears ==
    /\ [](accessor = "getOverflowYears"
            => /\ result = 584942
               /\ result > 500000
               /\ pow2(64) = <<1, 8, 4, 4, 6, 7, 4, 4, 0, 7, 3, 7, 0, 9, 5, 5, 1, 6, 1, 6>>)
    /\ [][getOverflowYears => UNCHANGED clockVars]_vars

C16_Witness ==
    /\ accessor = "getOverflowYears"
    /\ result = 584942
    /\ initialized
    /\ era = "reset"

\* C17: ESP8266: every updateTime() of an initialized clock stores
\* (overflow_counter << 32) | current_micros, with overflow_counter as the
\* refresh read it and current_micros the sample just taken, and sets
\* last_micros to current_micros, also when current_micros < last_micros.
C17_RefreshStore ==
    [][updateTime_store
         => /\ total_micros' = ShiftOr(high_part, current_micros)
            /\ last_micros' = current_micros]_vars

\* the wide value the clock truly held when updateTime() sampled micros():
\* the wraps since the baseline at that instant and the sample (less than one
\* period passes inside a call)
TrueAtSample ==
    ShiftOr(wraps - (IF narrow < current_micros THEN 1 ELSE 0), current_micros)

\* C18: ESP8266: every value getMicroseconds() returns is the true wide value
\* at its sample ((wraps since begin/reset) << 32 | sample) or that value
\* less one period; it never exceeds the true value, for any interleaving of
\* the handler with the read.
C18_NeverOverCounts ==
    [][(updateTime_store /\ req = "get")
         => /\ ret' \in {TrueAtSample, TrueAtSample - Period}
            /\ ret' <= ShiftOr(wraps, narrow)]_vars

\* C19: ESP8266: a refresh made after the handler has run for the last wrap
\* (the handler did not run during the refresh, no interrupt is pending and
\* micros() has not wrapped since the sample) stores the exact wide value
\* (wraps << 32) | sample, whether or not a refresh took place between the
\* wrap and the handler.
C19_ConvergesOnceServiced ==
    [][(/\ updateTime_store
        /\ ~irq
        /\ readStart = overflow_counter
        /\ high_part = overflow_counter
        /\ narrow >= current_micros)
         => total_micros' = ShiftOr(wraps, current_micros)]_vars

\* wraps of millis() since the last sample of it
WrapsSinceSample == (last_millis + (Elapsed - sampleAt)) \div Period

\* C20 as stated: when millis() wraps fewer than two times between two
\* consecutive refreshes, the delta added is the time elapsed between them.
C20_DeltaFewerThanTwoWraps ==
    [][(/\ initialized
        /\ update_generic \/ getMicroseconds_generic
        /\ WrapsSinceSample < 2)
         => total_millis' - total_millis = Elapsed - sampleAt]_vars

\* C20, amended: when less than one period (2^32 ms) elapses between two
\* consecutive refreshes, the delta added to total_millis is the time elapsed
\* between them, for every value of last_millis at the first.
C20_DeltaWithinPeriod ==
    [][(/\ initialized
        /\ update_generic \/ getMicroseconds_generic
        /\ Elapsed - sampleAt < Period)
         => total_millis' - total_millis = Elapsed - sampleAt]_vars

C20_Witness ==
    /\ backend = "generic" /\ initialized
    /\ wraps = 1
    /\ sampleAt = Elapsed
    /\ total_millis = UINT32_MAX
    /\ last_millis = UINT32_MAX - 1
    /\ ret = NoRead

\* C21: ESP32: outside a critical section time_fct_micros is the number of
\* timerISR executions since the last reset() (since begin() when there was
\* none); the handler does not run before begin() arms the timer, a finished
\* handler has added exactly 1, reset() leaves the counter at 0, and
\* getMicroseconds() and update() do not write it.
C21_TickCount ==
    /\ [](backend = "ESP32"
            => /\ (timerMux = "free" => Wide(time_hi, time_lo) = nticks)
               /\ (~initialized => isrpc = "idle" /\ Wide(time_hi, time_lo) = 0)
               /\ (isrpc = "exit" => Wide(time_hi, time_lo) = nticks)
               /\ (isrpc = "lo" => Wide(time_hi, time_lo) = nticks))
    /\ [][/\ (timerISR_enter => initialized /\ timer_arms > 0)
          /\ (timerISR_lo => nticks' = Wide(time_hi, time_lo) + 1)
          /\ (reset_ESP32_exit => Wide(time_hi', time_lo') = 0 /\ nticks' = 0)
          /\ ((getMicroseconds_ESP32 \/ getMicroseconds_ESP32_lo
                \/ getMicroseconds_ESP32_hi \/ getMicroseconds_ESP32_exit
                \/ update_ESP32 \/ begin_ESP32)
                 => UNCHANGED <<time_lo, time_hi>>)]_vars

C21_Witness ==
    /\ backend = "ESP32"
    /\ timerMux = "free"
    /\ era = "reset"
    /\ nticks = Period + 1
    /\ time_hi = 1 /\ time_lo = 1
    /\ ret = Period

\* C22: ESP32: the handler is never in progress while the mainline holds
\* timerMux, the mutex is held exactly during a call's critical section or a
\* handler, the step a call or a handler is at is always enabled and a call
\* can start whenever the mainline is idle and no handler is in progress (no
\* deadlock); with the mainline scheduled, every getMicroseconds() and
\* reset() call returns and the mutex is released.
C22_NoBlocking ==
    /\ [](backend = "ESP32"
            => /\ ~(isrpc # "idle" /\ timerMux = "main")
               /\ (timerMux = "main" <=> pc # "idle")
               /\ (timerMux = "isr" <=> isrpc # "idle")
               /\ (pc # "idle" => ENABLED MainlineESP32)
               /\ (isrpc # "idle" => ENABLED HandlerESP32)
               /\ ((pc = "idle" /\ isrpc = "idle")
                     => ENABLED getMicroseconds_ESP32 /\ ENABLED reset_ESP32))
    /\ ((pc # "idle") ~> (pc = "idle"))
    /\ ((timerMux # "free") ~> (timerMux = "free"))

C22_Witness ==
    /\ backend = "ESP32"
    /\ pc = "idle" /\ isrpc = "idle" /\ timerMux = "free"
    /\ era = "reset"
    /\ prev # NoRead /\ ret > prev
    /\ nticks > ret

\* C23: in the interrupt-driven backends no handler step is taken between
\* the steps of a reset() that writes the handler's field (time_fct_micros on
\* ESP32, overflow_counter on ESP8266), the mainline writes that field only
\* while it excludes the handler, and the handler writes no other field of
\* the clock.
C23_HandlerExcluded ==
    [][/\ (microsOverflowISR
             => /\ pc # "rst_counter"
                /\ UNCHANGED <<initialized, last_micros, total_micros, pollVars>>)
       /\ ((timerISR_enter \/ timerISR_lo \/ timerISR_hi \/ timerISR_exit)
             => /\ pc \notin {"rst_lo", "rst_hi", "rst_exit"}
                /\ UNCHANGED <<initialized, rd_lo, rd_hi, timer_arms, pollVars>>)
       /\ ((reset_ESP32_lo \/ reset_ESP32_hi)
             => timerMux = "main" /\ isrpc = "idle")]_vars

\* C24: polling backend: update() or getMicroseconds() called while millis()
\* still equals last_millis adds a delta of 0, leaving total_millis and
\* last_millis as the previous call left them; getMicroseconds() called again
\* with no time elapsed since the previous read returns the same value.
C24_RepeatedRefresh ==
    [][(backend = "generic" /\ initialized
          /\ (update_generic \/ getMicroseconds_generic))
        => /\ (millis = last_millis
                 => /\ Delta(last_millis, millis) = 0
                    /\ total_millis' = total_millis
                    /\ last_millis' = last_millis)
           /\ ((getMicroseconds_generic /\ ret # NoRead /\ readAt = Elapsed)
                 => ret' = ret /\ prev' = ret)]_vars

C24_Witness ==
    /\ backend = "generic" /\ initialized /\ gapsOK
    /\ era = "begin"
    /\ prev # NoRead /\ prev = ret
    /\ ret = 2000
    /\ readAt = Elapsed /\ sampleAt = Elapsed
    /\ millis = last_millis
    /\ total_millis = 2

====
